---- MODULE Spec2Model ----
(***************************************************************************)
(* Decision engine of the trading terminal (src/TradingTerminal.tsx):      *)
(* the 5-second runEngine tick, its take-profit and entry paths, the       *)
(* processing lock, the cooldown, the position ledger, and the operator    *)
(* and environment handlers that change what a tick reads; and the price   *)
(* feed (src/services/bitcoinService.ts): the ticker stream and its        *)
(* reconnection, the price history, the lagged price and the probability   *)
(* model.                                                                  *)
(*                                                                         *)
(* Conventions.                                                            *)
(*  - Prices are integers in cents (0.40 -> 40, the default ask 1 -> 100). *)
(*    Sizes are exact fractions [n, d].  The code computes with IEEE       *)
(*    doubles; the price values used here are away from the thresholds, so *)
(*    that the comparisons of the code and the exact ones agree.           *)
(*  - React state (botStatus, risk, selectedMarket, signer, apiCreds,      *)
(*    modelProb) changes when a setter is called; what handlers READ are   *)
(*    the refs and closures written by the effects of the next commit.     *)
(*    `view` is that committed copy, and Commit is the commit.             *)
(*  - A tick is an async function: each action of a tick is one            *)
(*    synchronous stretch of runEngine between two awaits.  The            *)
(*    invocations in flight are a bag of local states.                     *)
(*  - Time is the time elapsed since the last successful BUY and since the *)
(*    interval timer was armed, in steps of one timer period or of one     *)
(*    period of the probability poll.                                      *)
(*  - The error event and the close event of a failed WebSocket are        *)
(*    dispatched in one task (WebSocket API): no other handler runs        *)
(*    between onerror and onclose of the same socket.                      *)
(***************************************************************************)
EXTENDS Integers, Sequences, FiniteSets, Bags, TLC

\* ------------------------------------------------------------------ bounds
\* number of runEngine invocations that may be in flight at once
MaxTicks == 2
\* number of entries of the ledger
MaxLogs == 2
\* number of edits the operator makes to the risk policy
MaxRiskEdits == 1
\* number of changes of the wallet / credential context after setup
MaxEnvChanges == 1
\* time the price stream is followed, in clock steps
MaxClockSteps == 4
\* number of samples the price history holds at once
MaxHistory == 3
\* number of WebSocket objects the price stream creates
MaxSockets == 3

\* ------------------------------------------------------- program constants
COOLDOWN_MS == 15000
TICK_MS == 5000
\* amount by which the clock advances in one step: one timer period
ClockStepMs == TICK_MS

\* period of the syncProbs interval
PROB_POLL_MS == 4000

\* retention window of the price history, 20 * 60 * 1000
HISTORY_WINDOW_MS == 1200000
\* the lag of getPrice15mAgo: 15 * 60 * 1000
LAG_MS == 900000

\* amount by which the clock of the price stream advances in one step
StreamStepMs == 600000
\* prices a ticker message carries; 0 stands for a message without a price
Prices == {100, 200}
PriceAbsent == 0
\* messages of the websocket feed
FeedMessages ==
  [type : {"ticker"}, price : Prices \cup {PriceAbsent}]
    \cup {[type |-> "subscriptions", price |-> PriceAbsent]}
\* balances fetchWalletStats reports
Balances == {0, 25}
\* results of fetchWalletStats
StatsResults == {"ok", "rejected"}

Markets == {"m1", "m2"}
Outcomes == {"YES", "NO"}
\* values calculateProbability gives to syncProbs; useState<number>(50) before
ModelProbs == {15, 85}
InitialModelProb == 50
\* useState(50) of marketProbYes and of marketProbNo
InitialMarketProb == [yes |-> 50, no |-> 50]
\* no call of calculateProbability has been recorded
NoCall ==
  [args |-> [price |-> 0, strikePrice |-> 0, timeToExpiryMinutes |-> 0,
             volatility |-> 0, price15mAgo |-> 0],
   result |-> 0]
\* arguments of calculateProbability: BTC prices in dollars (0 before the
\* first update of the feed), strikes, minutes to expiry, volatilities
CurrentPrices == {0, 950, 990, 1000, 1010, 1050}
StrikePrices == {990, 1000}
LaggedPrices == {0, 1000, 1004}
ExpiryMinutes == {0, 10}
Volatilities == {1, 5}
ProbabilityArgs ==
  [price : CurrentPrices, strikePrice : StrikePrices,
   timeToExpiryMinutes : ExpiryMinutes, volatility : Volatilities,
   price15mAgo : LaggedPrices]
\* the WebSocket objects the stream may create
Sockets == 1 .. MaxSockets

\* initial value of the risk state
DefaultRisk ==
  [maxPositionSize |-> 10, edgeThreshold |-> 3, minProbThreshold |-> 80,
   takeProfitPct |-> 20, sellAmountPct |-> 100, directionBias |-> "BOTH",
   maxBuyCountPerMarket |-> 3]

\* the values the operator types into the risk form
RiskEdits ==
  { [f |-> "sellAmountPct", v |-> 50],
    [f |-> "sellAmountPct", v |-> 100],
    [f |-> "minProbThreshold", v |-> 10],
    [f |-> "maxBuyCountPerMarket", v |-> 1],
    [f |-> "directionBias", v |-> "YES_ONLY"],
    [f |-> "directionBias", v |-> "NO_ONLY"] }

\* the edits of the fields read by the entry trigger, by the exit, and by
\* the buy limit
EntryEdits == {e \in RiskEdits : e.f \in {"minProbThreshold", "directionBias"}}
ExitEdits == {e \in RiskEdits : e.f = "sellAmountPct"}
LimitEdits == {e \in RiskEdits : e.f = "maxBuyCountPerMarket"}
\* the smallest edge threshold that is not negative
EdgeEdits == {[f |-> "edgeThreshold", v |-> 0]}

ApplyRiskEdit(r, e) ==
  CASE e.f = "sellAmountPct" -> [r EXCEPT !.sellAmountPct = e.v]
    [] e.f = "minProbThreshold" -> [r EXCEPT !.minProbThreshold = e.v]
    [] e.f = "maxBuyCountPerMarket" -> [r EXCEPT !.maxBuyCountPerMarket = e.v]
    [] e.f = "edgeThreshold" -> [r EXCEPT !.edgeThreshold = e.v]
    [] OTHER -> [r EXCEPT !.directionBias = e.v]

\* order books a fetch can return for one outcome token (prices in cents)
EmptyBook == [bids |-> <<>>, asks |-> <<>>]
LowBook == [bids |-> <<5>>, asks |-> <<10>>]
HighBook == [bids |-> <<60>>, asks |-> <<95>>]
Books == {EmptyBook, LowBook, HighBook}
\* what the two fetches of a tick return together, [yes, no]: the two tokens
\* of a binary market are priced against each other
BookPairs ==
  { [yes |-> EmptyBook, no |-> EmptyBook],
    [yes |-> LowBook, no |-> HighBook],
    [yes |-> HighBook, no |-> LowBook],
    [yes |-> LowBook, no |-> LowBook] }

\* books of which one side is empty
BidsOnly == [bids |-> <<60>>, asks |-> <<>>]
AsksOnly == [bids |-> <<>>, asks |-> <<10>>]
OneSidedPairs ==
  { [yes |-> AsksOnly, no |-> BidsOnly],
    [yes |-> BidsOnly, no |-> AsksOnly] }

\* no fetch has delivered books
NoBooks == [yes |-> EmptyBook, no |-> EmptyBook]

\* results of placeOrderWithClient: resolved, or rejected with a message
OrderResults == {"ok", "auth", "generic"}

\* the error outcome of an order submission that settled with res
Failure(side, res) ==
  IF res = "ok" THEN "none"
  ELSE IF side = "sell"
    THEN (IF res = "auth" THEN "sell-auth" ELSE "sell-generic")
    ELSE (IF res = "auth" THEN "buy-auth" ELSE "buy-generic")

\* ---------------------------------------------------------------- helpers
Ev(type, msg) == [type |-> type, msg |-> msg]

Min(a, b) == IF a < b THEN a ELSE b

\* BestAsk when a missing ask counts as 0
BestAsk_DefaultZero(book) ==
  IF Len(book.asks) = 0 THEN 0 ELSE book.asks[1]

\* `book.asks[0]?.price || 1`
BestAsk(book) ==
  IF Len(book.asks) = 0 \/ book.asks[1] = 0 THEN 100 ELSE book.asks[1]

\* `book.bids[0]?.price || 0`
BestBid(book) ==
  IF Len(book.bids) = 0 THEN 0 ELSE book.bids[1]

\* OpenTrades when every position that is not CLOSED is evaluated
OpenTrades_NotClosed(ls, m) ==
  LET P(l) == l.status # "CLOSED" /\ l.marketId = m IN SelectSeq(ls, P)

\* logs.filter(l => l.status === 'OPEN' && l.marketId === market.id)
OpenTrades(ls, m) ==
  LET P(l) == l.status = "OPEN" /\ l.marketId = m IN SelectSeq(ls, P)

\* BuyCount when only the positions still OPEN are counted
BuyCount_OpenOnly(ls, m) ==
  LET P(l) == l.marketId = m /\ l.side = "BUY" /\ l.status = "OPEN"
  IN Len(SelectSeq(ls, P))

\* logs.filter(l => l.marketId === market.id && l.side === 'BUY').length
BuyCount(ls, m) ==
  LET P(l) == l.marketId = m /\ l.side = "BUY" IN Len(SelectSeq(ls, P))

\* bid of the side of a trade
CurrentBid(tk, trade) ==
  IF trade.outcome = "YES" THEN tk.bestYesBid ELSE tk.bestNoBid

\* pnlPct >= takeProfitPct, pnlPct = (currentBid - entryPrice)/entryPrice*100
PnlReached(bid, entryPrice, takeProfitPct) ==
  (bid - entryPrice) * 100 >= takeProfitPct * entryPrice

\* the two conditions of the take-profit loop body
TPTriggers(tk, trade) ==
  /\ CurrentBid(tk, trade) > 0
  /\ PnlReached(CurrentBid(tk, trade), trade.entryPrice, tk.risk.takeProfitPct)

\* index of the first trade at or after i that triggers, 0 when none does
RECURSIVE FirstTrigger(_, _)
FirstTrigger(tk, i) ==
  IF i > Len(tk.openTrades) THEN 0
  ELSE IF TPTriggers(tk, tk.openTrades[i]) THEN i
       ELSE FirstTrigger(tk, i + 1)

\* yesEdge = ((modelProb / 100) - bestYesAsk) * 100, in percentage points
YesEdge(tk) == tk.modelProb - tk.bestYesAsk
\* noEdge = ((100 - modelProb) / 100 - bestNoAsk) * 100
NoEdge(tk) == (100 - tk.modelProb) - tk.bestNoAsk

YesCondition(tk) ==
  /\ tk.risk.directionBias \in {"BOTH", "YES_ONLY"}
  /\ tk.modelProb >= tk.risk.minProbThreshold
  /\ YesEdge(tk) >= tk.risk.edgeThreshold

NoCondition(tk) ==
  /\ tk.risk.directionBias \in {"BOTH", "NO_ONLY"}
  /\ (100 - tk.modelProb) >= tk.risk.minProbThreshold
  /\ NoEdge(tk) >= tk.risk.edgeThreshold

\* ExecuteOutcome with the two branches in the other order
ExecuteOutcome_NoFirst(tk) ==
  IF NoCondition(tk) THEN "NO"
  ELSE IF YesCondition(tk) THEN "YES"
  ELSE "null"

\* the if / else-if that assigns executeOutcome
ExecuteOutcome(tk) ==
  IF YesCondition(tk) THEN "YES"
  ELSE IF NoCondition(tk) THEN "NO"
  ELSE "null"

ExecutePrice(tk) ==
  IF ExecuteOutcome(tk) = "YES" THEN tk.bestYesAsk
  ELSE IF ExecuteOutcome(tk) = "NO" THEN tk.bestNoAsk
  ELSE 0

NoOrder == [side |-> "none", marketId |-> "none", outcome |-> "null",
            price |-> 0, size |-> [n |-> 0, d |-> 1]]

IdleTick ==
  [pc |-> "idle", market |-> "none", risk |-> DefaultRisk,
   modelProb |-> InitialModelProb,
   openTrades |-> <<>>, idx |-> 0,
   bestYesAsk |-> 0, bestNoAsk |-> 0, bestYesBid |-> 0, bestNoBid |-> 0,
   executeOutcome |-> "null", executePrice |-> 0, order |-> NoOrder]

\* ------------------------------------------------------------------ state
VARIABLES
  sinceTimerArmed, \* time since the setInterval of runEngine was created or
                   \* last fired, counted up to TICK_MS
  isActive,        \* botStatus.isActive
  logs,            \* botStatus.logs, the position ledger
  tradesCount,     \* botStatus.tradesCount
  secrets,         \* botStatus.secrets: proxyAddress set, isConfigured
  risk,            \* the risk state
  selectedMarket,  \* the selectedMarket state, "none" for null
  signer,          \* the signer state is non-null
  apiCreds,        \* the apiCreds state is non-null
  modelProb,       \* the modelProb state
  view,            \* botStatusRef, riskRef, selectedMarketRef and the closure of
                   \* runEngine and of the handlers, as of the last commit
  processingTrade, \* processingTradeRef.current
  sinceLastTrade,  \* Date.now() - lastTradeTimeRef.current, counted up to
                   \* COOLDOWN_MS
  ticks,           \* the runEngine invocations in flight, a bag of their
                   \* local states: invocations have no identity
  emitted,         \* entries put on systemEvents by the step just taken
  riskEdits,       \* number of risk edits made
  envChanges,      \* number of wallet-context changes made
  fetched,         \* the books delivered by the step just taken, if it is the
                   \* return of an order-book fetch
  handled,         \* the error outcome handled by the step just taken
  balance,         \* botStatus.balance
  clock,           \* Date.now() as the price stream reads it
  priceHistory,    \* priceHistory of the price feed
  currentPrice,    \* currentPrice of the price feed
  marketProb,      \* the marketProbYes and marketProbNo states
  btc15mAgo,       \* the btc15mAgo state: price15mAgo of the last update the
                   \* feed delivered
  lastProb,        \* the last call of calculateProbability: its arguments
                   \* and its result
  prevProb,        \* the call of calculateProbability before the last one
  sockets,         \* the WebSocket objects startBTCStream has created, each
                   \* "open", "failed" (its error event is being dispatched)
                   \* or "closed"; "none" before it is created
  ws,              \* the module variable ws: a socket, 0 for null
  reconnects       \* number of pending setTimeout(startBTCStream, 5000)

vars == <<sinceTimerArmed, isActive, logs, tradesCount, secrets, risk,
          selectedMarket, signer, apiCreds, modelProb, view, processingTrade,
          sinceLastTrade, ticks, emitted, riskEdits, envChanges, fetched,
          handled, balance, clock, priceHistory, currentPrice, marketProb,
          btc15mAgo, lastProb, prevProb, sockets, ws, reconnects>>

\* the data of the price feed, its connection, and the record of the calls
\* of calculateProbability
feed == <<clock, priceHistory, currentPrice, btc15mAgo>>

connection == <<sockets, ws, reconnects>>

probCalls == <<lastProb, prevProb>>

\* the values the effects copy into refs and closures at a commit
Current ==
  [isActive |-> isActive, logs |-> logs, secrets |-> secrets, risk |-> risk,
   selectedMarket |-> selectedMarket, signer |-> signer, apiCreds |-> apiCreds,
   modelProb |-> modelProb, marketProb |-> marketProb]

\* the state after construction of everything but the price history
InitTerminal ==
  /\ sinceTimerArmed = 0
  /\ isActive = FALSE
  /\ logs = <<>>
  /\ tradesCount = 0
  /\ secrets = [proxyAddress |-> FALSE, isConfigured |-> FALSE]
  /\ risk = DefaultRisk
  /\ selectedMarket = "none"
  /\ signer = FALSE
  /\ apiCreds = FALSE
  /\ modelProb = InitialModelProb
  /\ view = [isActive |-> FALSE, logs |-> <<>>,
             secrets |-> [proxyAddress |-> FALSE, isConfigured |-> FALSE],
             risk |-> DefaultRisk, selectedMarket |-> "none", signer |-> FALSE,
             apiCreds |-> FALSE, modelProb |-> InitialModelProb,
             marketProb |-> InitialMarketProb]
  /\ processingTrade = FALSE
  /\ sinceLastTrade = COOLDOWN_MS
  /\ ticks = EmptyBag
  /\ emitted = <<>>
  /\ riskEdits = 0
  /\ envChanges = 0
  /\ fetched = NoBooks
  /\ handled = "none"
  /\ balance = 0
  /\ marketProb = InitialMarketProb
  /\ btc15mAgo = 0
  /\ lastProb = NoCall
  /\ prevProb = NoCall
  /\ sockets = [s \in Sockets |-> "none"]
  /\ ws = 0
  /\ reconnects = 0

Init ==
  /\ InitTerminal
  /\ clock = 0
  /\ priceHistory = <<>>
  /\ currentPrice = 0

\* ------------------------------------------------------- the engine tick
\* trade.size * (risk.sellAmountPct / 100)
SellSize(trade, r) ==
  [n |-> trade.size.n * r.sellAmountPct, d |-> trade.size.d * 100]

\* risk.maxPositionSize / executePrice, executePrice in cents
UnitsToBuy(r, price) == [n |-> r.maxPositionSize * 100, d |-> price]

\* SellOrder without the one-cent discount on the bid
SellOrder_AtBid(tk, trade) ==
  [side |-> "SELL", marketId |-> tk.market, outcome |-> trade.outcome,
   price |-> CurrentBid(tk, trade), size |-> SellSize(trade, tk.risk)]

\* arguments of the placeOrderWithClient call of the take-profit path
SellOrder(tk, trade) ==
  [side |-> "SELL", marketId |-> tk.market, outcome |-> trade.outcome,
   price |-> CurrentBid(tk, trade) - 1, size |-> SellSize(trade, tk.risk)]

\* BuyOrder without the one-cent premium on the ask
BuyOrder_AtAsk(tk) ==
  [side |-> "BUY", marketId |-> tk.market, outcome |-> ExecuteOutcome(tk),
   price |-> ExecutePrice(tk),
   size |-> UnitsToBuy(tk.risk, ExecutePrice(tk))]

\* arguments of the placeOrderWithClient call of the entry path
BuyOrder(tk) ==
  [side |-> "BUY", marketId |-> tk.market, outcome |-> ExecuteOutcome(tk),
   price |-> ExecutePrice(tk) + 1,
   size |-> UnitsToBuy(tk.risk, ExecutePrice(tk))]

\* risk.sellAmountPct === 100 ? 'CLOSED' : 'PARTIAL'
StatusAfterSell(r) == IF r.sellAmountPct = 100 THEN "CLOSED" ELSE "PARTIAL"

\* InCooldown with the timer period in place of the cooldown
InCooldown_TimerPeriod(elapsed) == elapsed < TICK_MS

\* Date.now() - lastTradeTimeRef.current < COOLDOWN_MS
InCooldown(elapsed) == elapsed < COOLDOWN_MS

\* BuyLimitReached when the limit itself is still allowed
BuyLimitReached_Strict(currentBuys, r) == currentBuys > r.maxBuyCountPerMarket

\* currentBuys >= risk.maxBuyCountPerMarket
BuyLimitReached(currentBuys, r) == currentBuys >= r.maxBuyCountPerMarket

\* LockBlocksTick without the test
LockBlocksTick_Never(lock) == FALSE

\* the guard `if (processingTradeRef.current)` at tick entry
LockBlocksTick(lock) == lock

\* ConfigMissing without the test of the signer
ConfigMissing_NoSignerTest(v) ==
  \/ ~v.secrets.proxyAddress
  \/ ~v.secrets.isConfigured
  \/ ~v.apiCreds

\* the config guard at tick entry
ConfigMissing(v) ==
  \/ ~v.secrets.proxyAddress
  \/ ~v.secrets.isConfigured
  \/ ~v.apiCreds
  \/ ~v.signer

\* EngineOff without the test of isActive
EngineOff_MarketOnly(v) == v.selectedMarket = "none"

\* the guard of the first line of runEngine: the tick returns at once
EngineOff(v) == ~v.isActive \/ v.selectedMarket = "none"

\* NewLog when the market is read from selectedMarketRef once the BUY has
\* settled
NewLog_SelectedMarket(tk, ls) ==
  [id |-> Len(ls) + 1, marketId |-> view.selectedMarket,
   outcome |-> tk.executeOutcome,
   side |-> "BUY", entryPrice |-> tk.executePrice,
   size |-> UnitsToBuy(tk.risk, tk.executePrice), modelProb |-> tk.modelProb,
   marketProb |-> tk.executePrice, status |-> "OPEN"]

\* the TradeLog object built after a successful BUY; the ids Math.random
\* gives are taken to be distinct
NewLog(tk, ls) ==
  [id |-> Len(ls) + 1, marketId |-> tk.market, outcome |-> tk.executeOutcome,
   side |-> "BUY", entryPrice |-> tk.executePrice,
   size |-> UnitsToBuy(tk.risk, tk.executePrice), modelProb |-> tk.modelProb,
   marketProb |-> tk.executePrice, status |-> "OPEN"]

\* LedgerAfterBuy when the entry is appended before the submission settles
LedgerAfterBuy_Optimistic(ls, tk, res) == Append(ls, NewLog(tk, ls))

\* the ledger once the BUY submission has settled: `[...prev.logs, log]`
\* follows the await inside the try block
LedgerAfterBuy(ls, tk, res) ==
  IF res = "ok" THEN Append(ls, NewLog(tk, ls)) ELSE ls

\* MarkSold when the position sold is taken out of the ledger
MarkSold_RemovesSold(ls, id, status) ==
  LET P(l) == l.id # id IN SelectSeq(ls, P)

\* prev.logs.map(l => l.id === trade.id ? { ...l, status } : l)
MarkSold(ls, id, status) ==
  [i \in DOMAIN ls |->
     IF ls[i].id = id THEN [ls[i] EXCEPT !.status = status] ELSE ls[i]]

\* SellEvents when the catch of the SELL logs nothing
SellEvents_SilentCatch(res) ==
  IF res = "ok" THEN <<Ev("SUCCESS", "tp-executed")>> ELSE <<>>

\* the events of the try / catch around the SELL submission
SellEvents(res) ==
  IF res = "ok" THEN <<Ev("SUCCESS", "tp-executed")>>
  ELSE <<Ev("ERROR", "tp-failed")>>

\* the events of the try / catch around the BUY submission
BuyEvents(res) ==
  IF res = "ok" THEN <<Ev("SUCCESS", "order-confirmed")>>
  ELSE IF res = "auth"
    THEN <<Ev("ERROR", "auth-error"), Ev("ERROR", "fix-1"),
           Ev("ERROR", "fix-2"), Ev("ERROR", "fix-3")>>
  ELSE <<Ev("ERROR", "entry-failed")>>

\* ReleasedLock when the release sits at the end of the try block
ReleasedLock_OnSuccessOnly(res) == res # "ok"

\* the lock value left by the finally block of a submission
ReleasedLock(res) == FALSE

\* section 2 of the tick body, from the cooldown gate to the BUY submission
\* or the return: the tick left behind, whether the lock is taken, the events
EntryEval(tk) ==
  IF InCooldown(sinceLastTrade)
    THEN [tk |-> IdleTick, locks |-> FALSE, ev |-> <<>>]
  ELSE IF ExecuteOutcome(tk) = "null"
    THEN [tk |-> IdleTick, locks |-> FALSE, ev |-> <<Ev("INFO", "alpha")>>]
  ELSE IF BuyLimitReached(BuyCount(view.logs, tk.market), tk.risk)
    THEN [tk |-> IdleTick, locks |-> FALSE,
          ev |-> <<Ev("INFO", "alpha"), Ev("WARN", "buy-limit")>>]
  ELSE [tk |-> [tk EXCEPT !.pc = "buy", !.openTrades = <<>>, !.idx = 0,
                          !.bestYesBid = 0, !.bestNoBid = 0,
                          !.executeOutcome = ExecuteOutcome(tk),
                          !.executePrice = ExecutePrice(tk),
                          !.order = BuyOrder(tk)],
        locks |-> TRUE,
        ev |-> <<Ev("INFO", "alpha"), Ev("SUCCESS", "opportunity")>>]

\* the take-profit loop from position i of openTrades up to its next await,
\* followed by section 2 when the loop runs to its end
ExitLoop(tk, i) ==
  LET j == FirstTrigger(tk, i) IN
  IF j # 0
    THEN [tk |-> [tk EXCEPT !.pc = "sell", !.idx = j,
                            !.order = SellOrder(tk, tk.openTrades[j])],
          locks |-> TRUE, ev |-> <<Ev("SUCCESS", "tp-triggered")>>]
    ELSE EntryEval(tk)

\* NextPosition when a failed SELL ends the take-profit loop
NextPosition_StopsOnFailure(tk, res) ==
  IF res = "ok" THEN tk.idx + 1 ELSE Len(tk.openTrades) + 1

\* the position of openTrades at which the for-of loop goes on once the SELL
\* of position tk.idx has settled; the catch is inside the loop body
NextPosition(tk, res) == tk.idx + 1

\* the bag of invocations after invocation tk has run on and become next;
\* an invocation that has returned is no longer in it
Resume(tk, next) ==
  IF next.pc = "idle"
    THEN ticks (-) SetToBag({tk})
    ELSE (ticks (-) SetToBag({tk})) (+) SetToBag({next})

\* setInterval(runEngine, 5000) fires: runEngine up to `await Promise.all`;
\* at most max invocations are in flight at once
TickStart(max) ==
  /\ sinceTimerArmed >= TICK_MS
  /\ sinceTimerArmed' = 0
  /\ IF EngineOff(view)
       THEN /\ emitted' = <<>>
            /\ UNCHANGED <<isActive, ticks>>
     ELSE IF ConfigMissing(view)
       THEN /\ isActive' = FALSE
            /\ emitted' = <<Ev("ERROR", "halted")>>
            /\ UNCHANGED ticks
     ELSE IF LockBlocksTick(processingTrade)
       THEN /\ emitted' = <<Ev("WARN", "skip-tick")>>
            /\ UNCHANGED <<isActive, ticks>>
     ELSE /\ BagCardinality(ticks) < max
          /\ ticks' = ticks (+) SetToBag({
                 [IdleTick EXCEPT !.pc = "fetch",
                                  !.market = view.selectedMarket,
                                  !.risk = view.risk,
                                  !.modelProb = view.modelProb,
                                  !.openTrades =
                                     OpenTrades(view.logs, view.selectedMarket)]})
          /\ emitted' = <<Ev("INFO", "tick"), Ev("INFO", "fetching")>>
          /\ UNCHANGED isActive
  /\ fetched' = NoBooks
  /\ handled' = IF ~EngineOff(view) /\ ConfigMissing(view)
                  THEN "config-halt" ELSE "none"
  /\ UNCHANGED <<balance, marketProb, feed, connection, probCalls>>
  /\ UNCHANGED <<logs, tradesCount, secrets, risk, selectedMarket, signer,
                 apiCreds, modelProb, view, processingTrade, sinceLastTrade,
                 riskEdits, envChanges>>

\* the invocations that have submitted a BUY, or whose books trigger an entry
\* once their take-profit loop is over
PotentialBuys ==
  LET S == {tk \in BagToSet(ticks) :
              \/ tk.pc = "buy"
              \/ tk.pc = "sell" /\ ExecuteOutcome(tk) # "null"}
  IN [tk \in S |-> CopiesIn(tk, ticks)]

\* both fetchOrderBook calls resolve: the tick runs on to its next await.
\* Books that trigger an entry are returned only while the ledger has room.
FetchReturn(inv, books) ==
  /\ BagIn(inv, ticks)
  /\ inv.pc = "fetch"
  /\ fetched' = books
  /\ handled' = "none"
  /\ UNCHANGED <<balance, marketProb, feed, connection, probCalls>>
  /\ LET tk == [inv EXCEPT !.bestYesAsk = BestAsk(books.yes),
                                !.bestNoAsk = BestAsk(books.no),
                                !.bestYesBid = BestBid(books.yes),
                                !.bestNoBid = BestBid(books.no)]
         r == ExitLoop(tk, 1)
     IN /\ ExecuteOutcome(tk) # "null" =>
             Len(logs) + BagCardinality(PotentialBuys) < MaxLogs
        /\ ticks' = Resume(inv, r.tk)
        /\ processingTrade' = IF r.locks THEN TRUE ELSE processingTrade
        /\ emitted' = <<Ev("INFO", "clob-depth")>>
                      \o (IF tk.openTrades # <<>>
                            THEN <<Ev("INFO", "checking-positions")>> ELSE <<>>)
                      \o r.ev
  /\ UNCHANGED <<sinceTimerArmed, isActive, logs, tradesCount, secrets, risk,
                 selectedMarket, signer, apiCreds, modelProb, view,
                 sinceLastTrade, riskEdits, envChanges>>

\* TickThrows when the outer catch also stops the engine
TickThrows_Fatal(tk) ==
  /\ BagIn(tk, ticks)
  /\ tk.pc = "fetch"
  /\ ticks' = Resume(tk, IdleTick)
  /\ isActive' = FALSE
  /\ emitted' = <<Ev("ERROR", "critical")>>
  /\ fetched' = NoBooks
  /\ handled' = "tick-exception"
  /\ UNCHANGED <<balance, marketProb, feed, connection, probCalls>>
  /\ UNCHANGED <<sinceTimerArmed, logs, tradesCount, secrets, risk,
                 selectedMarket, signer, apiCreds, modelProb, view,
                 processingTrade, sinceLastTrade, riskEdits, envChanges>>

\* the awaited fetch rejects or the tick body throws: the outer catch
TickThrows(tk) ==
  /\ BagIn(tk, ticks)
  /\ tk.pc = "fetch"
  /\ ticks' = Resume(tk, IdleTick)
  /\ emitted' = <<Ev("ERROR", "critical")>>
  /\ fetched' = NoBooks
  /\ handled' = "tick-exception"
  /\ UNCHANGED <<balance, marketProb, feed, connection, probCalls>>
  /\ UNCHANGED <<sinceTimerArmed, isActive, logs, tradesCount, secrets, risk,
                 selectedMarket, signer, apiCreds, modelProb, view,
                 processingTrade, sinceLastTrade, riskEdits, envChanges>>

\* the SELL submission settles: status update or error, finally, next trades
SellReturn(tk, res) ==
  /\ BagIn(tk, ticks)
  /\ tk.pc = "sell"
  /\ LET trade == tk.openTrades[tk.idx]
         r == ExitLoop([tk EXCEPT !.order = NoOrder], NextPosition(tk, res))
     IN /\ logs' = IF res = "ok"
                     THEN MarkSold(logs, trade.id, StatusAfterSell(tk.risk))
                     ELSE logs
        /\ ticks' = Resume(tk, r.tk)
        /\ processingTrade' = IF r.locks THEN TRUE ELSE ReleasedLock(res)
        /\ emitted' = SellEvents(res) \o r.ev
  /\ fetched' = NoBooks
  /\ handled' = Failure("sell", res)
  /\ UNCHANGED <<balance, marketProb, feed, connection, probCalls>>
  /\ UNCHANGED <<sinceTimerArmed, isActive, tradesCount, secrets, risk,
                 selectedMarket, signer, apiCreds, modelProb, view,
                 sinceLastTrade, riskEdits, envChanges>>

\* the BUY submission settles: ledger append or classified error, finally
BuyReturn(tk, res) ==
  /\ BagIn(tk, ticks)
  /\ tk.pc = "buy"
  /\ logs' = LedgerAfterBuy(logs, tk, res)
  /\ IF res = "ok"
       THEN /\ tradesCount' = tradesCount + 1
            /\ sinceLastTrade' = 0
       ELSE UNCHANGED <<tradesCount, sinceLastTrade>>
  /\ emitted' = BuyEvents(res)
  /\ processingTrade' = ReleasedLock(res)
  /\ ticks' = Resume(tk, IdleTick)
  /\ fetched' = NoBooks
  /\ handled' = Failure("buy", res)
  /\ UNCHANGED <<balance, marketProb, feed, connection, probCalls>>
  /\ UNCHANGED <<sinceTimerArmed, isActive, secrets, risk, selectedMarket,
                 signer, apiCreds, modelProb, view, riskEdits, envChanges>>

\* ------------------------------------------- operator and environment
\* some invocation of runEngine is in flight, or the ledger is not empty
TradingBegun == logs # <<>> \/ BagToSet(ticks) # {}

\* toggleBot, the RUN / STOP button
ToggleBot ==
  /\ view = Current
  /\ IF ~view.isActive
        /\ (~view.secrets.isConfigured \/ ~view.apiCreds \/ ~view.signer)
       THEN /\ emitted' = <<Ev("ERROR", "startup-aborted")>>
            /\ UNCHANGED isActive
       ELSE /\ isActive' = ~view.isActive
            /\ emitted' = IF ~view.isActive
                            THEN <<Ev("SUCCESS", "initializing"),
                                   Ev("INFO", "loading-config"),
                                   Ev("INFO", "connecting")>>
                            ELSE <<Ev("WARN", "shutdown"),
                                   Ev("INFO", "terminating")>>
  /\ fetched' = NoBooks
  /\ handled' = IF ~view.isActive
                     /\ (~view.secrets.isConfigured \/ ~view.apiCreds
                           \/ ~view.signer)
                  THEN "startup-aborted" ELSE "none"
  /\ UNCHANGED <<balance, marketProb, feed, connection, probCalls>>
  /\ UNCHANGED <<sinceTimerArmed, logs, tradesCount, secrets, risk,
                 selectedMarket, signer, apiCreds, modelProb, view,
                 processingTrade, sinceLastTrade, ticks, riskEdits,
                 envChanges>>

\* handleRiskChange of the risk form: onUpdateRisk({ ...risk, [field]: value }),
\* while fewer than max edits have been made
EditRisk(e, max) ==
  /\ view = Current
  /\ riskEdits < max
  /\ ApplyRiskEdit(view.risk, e) # risk
  /\ risk' = ApplyRiskEdit(view.risk, e)
  /\ riskEdits' = riskEdits + 1
  /\ emitted' = <<>>
  /\ fetched' = NoBooks
  /\ handled' = "none"
  /\ UNCHANGED <<balance, marketProb, feed, connection, probCalls>>
  /\ UNCHANGED <<sinceTimerArmed, isActive, logs, tradesCount, secrets,
                 selectedMarket, signer, apiCreds, modelProb, view,
                 processingTrade, sinceLastTrade, ticks, envChanges>>

\* an edit of the risk form within the number of edits the operator makes
UpdateRisk(e) == EditRisk(e, MaxRiskEdits)

\* refreshMarkets(false) with no market selected: setSelectedMarket(data[0])
SelectFirstMarket ==
  /\ view = Current
  /\ view.selectedMarket = "none"
  /\ selectedMarket' = "m1"
  /\ emitted' = <<>>
  /\ fetched' = NoBooks
  /\ handled' = "none"
  /\ UNCHANGED <<balance, marketProb, feed, connection, probCalls>>
  /\ UNCHANGED <<sinceTimerArmed, isActive, logs, tradesCount, secrets, risk,
                 signer, apiCreds, modelProb, view, processingTrade,
                 sinceLastTrade, ticks, riskEdits, envChanges>>

\* refreshMarkets(true) once the selected market has expired: the next
\* market of the series is selected
SelectNextMarket ==
  /\ view = Current
  /\ view.selectedMarket = "m1"
  /\ selectedMarket' = "m2"
  /\ emitted' = <<>>
  /\ fetched' = NoBooks
  /\ handled' = "none"
  /\ UNCHANGED <<balance, marketProb, feed, connection, probCalls>>
  /\ UNCHANGED <<sinceTimerArmed, isActive, logs, tradesCount, secrets, risk,
                 signer, apiCreds, modelProb, view, processingTrade,
                 sinceLastTrade, ticks, riskEdits, envChanges>>

\* syncProbs: setModelProb(calculateProbability(...))
SyncProbs(p) ==
  /\ view = Current
  /\ view.selectedMarket # "none"
  /\ p # modelProb
  /\ modelProb' = p
  /\ emitted' = <<>>
  /\ fetched' = NoBooks
  /\ handled' = "none"
  /\ UNCHANGED <<balance, marketProb, feed, connection, probCalls>>
  /\ UNCHANGED <<sinceTimerArmed, isActive, logs, tradesCount, secrets, risk,
                 selectedMarket, signer, apiCreds, view, processingTrade,
                 sinceLastTrade, ticks, riskEdits, envChanges>>

\* initSigner: a signer after login, null after logout
SetSigner(v) ==
  /\ view = Current
  /\ v # signer
  /\ ~v => envChanges < MaxEnvChanges
  /\ signer' = v
  /\ envChanges' = IF v THEN envChanges ELSE envChanges + 1
  /\ emitted' = <<>>
  /\ fetched' = NoBooks
  /\ handled' = "none"
  /\ UNCHANGED <<balance, marketProb, feed, connection, probCalls>>
  /\ UNCHANGED <<sinceTimerArmed, isActive, logs, tradesCount, secrets, risk,
                 selectedMarket, apiCreds, modelProb, view, processingTrade,
                 sinceLastTrade, ticks, riskEdits>>

\* deriveAndDetect, first half: the API credentials are derived
DeriveCredentials ==
  /\ view = Current
  /\ view.signer
  /\ ~apiCreds
  /\ apiCreds' = TRUE
  /\ secrets' = [secrets EXCEPT
                   !.isConfigured = IF secrets.proxyAddress THEN TRUE ELSE @]
  /\ emitted' = <<Ev("INFO", "deriving"), Ev("SUCCESS", "derived")>>
  /\ fetched' = NoBooks
  /\ handled' = "none"
  /\ UNCHANGED <<balance, marketProb, feed, connection, probCalls>>
  /\ UNCHANGED <<sinceTimerArmed, isActive, logs, tradesCount, risk,
                 selectedMarket, signer, modelProb, view, processingTrade,
                 sinceLastTrade, ticks, riskEdits, envChanges>>

\* deriveAndDetect, second half, and handleScanProxy: the proxy is found
DetectProxy ==
  /\ view = Current
  /\ view.signer
  /\ ~secrets.proxyAddress
  /\ secrets' = [proxyAddress |-> TRUE, isConfigured |-> TRUE]
  /\ emitted' = <<Ev("INFO", "scanning"), Ev("SUCCESS", "proxy-found")>>
  /\ fetched' = NoBooks
  /\ handled' = "none"
  /\ UNCHANGED <<balance, marketProb, feed, connection, probCalls>>
  /\ UNCHANGED <<sinceTimerArmed, isActive, logs, tradesCount, risk,
                 selectedMarket, signer, apiCreds, modelProb, view,
                 processingTrade, sinceLastTrade, ticks, riskEdits,
                 envChanges>>

\* handleSecretChange('proxyAddress', value) of the vault form
UpdateSecrets(v) ==
  /\ view = Current
  /\ envChanges < MaxEnvChanges
  /\ secrets' = [proxyAddress |-> v, isConfigured |-> FALSE]
  /\ secrets' # secrets
  /\ envChanges' = envChanges + 1
  /\ emitted' = <<>>
  /\ fetched' = NoBooks
  /\ handled' = "none"
  /\ UNCHANGED <<balance, marketProb, feed, connection, probCalls>>
  /\ UNCHANGED <<sinceTimerArmed, isActive, logs, tradesCount, risk,
                 selectedMarket, signer, apiCreds, modelProb, view,
                 processingTrade, sinceLastTrade, ticks, riskEdits>>

\* the dependency list of the effect that owns the runEngine interval
EngineDeps(v) ==
  <<v.isActive, v.modelProb, v.marketProb, v.apiCreds, v.signer>>

\* React commits: the ref effects run, and the engine effect is torn down and
\* set up again (clearInterval, setInterval) when one of its dependencies changed
Commit ==
  /\ view # Current
  /\ view' = Current
  /\ sinceTimerArmed' = IF EngineDeps(Current) # EngineDeps(view)
                          THEN 0 ELSE sinceTimerArmed
  /\ emitted' = <<>>
  /\ fetched' = NoBooks
  /\ handled' = "none"
  /\ UNCHANGED <<balance, marketProb, feed, connection, probCalls>>
  /\ UNCHANGED <<isActive, logs, tradesCount, secrets, risk, selectedMarket,
                 signer, apiCreds, modelProb, processingTrade,
                 sinceLastTrade, ticks, riskEdits, envChanges>>

\* time passes; a pending commit never waits as long as a clock step
Advance ==
  /\ view = Current
  /\ sinceTimerArmed' = Min(sinceTimerArmed + ClockStepMs, TICK_MS)
  /\ sinceLastTrade' = Min(sinceLastTrade + ClockStepMs, COOLDOWN_MS)
  /\ emitted' = <<>>
  /\ fetched' = NoBooks
  /\ handled' = "none"
  /\ UNCHANGED <<balance, marketProb, feed, connection, probCalls>>
  /\ UNCHANGED <<isActive, logs, tradesCount, secrets, risk, selectedMarket,
                 signer, apiCreds, modelProb, view, processingTrade, ticks,
                 riskEdits, envChanges>>

\* time passes up to the next run of syncProbs, which comes before the
\* engine timer armed at the last commit is due
AdvanceToPoll ==
  /\ view = Current
  /\ sinceTimerArmed' = Min(sinceTimerArmed + PROB_POLL_MS, TICK_MS)
  /\ sinceLastTrade' = Min(sinceLastTrade + PROB_POLL_MS, COOLDOWN_MS)
  /\ emitted' = <<>>
  /\ fetched' = NoBooks
  /\ handled' = "none"
  /\ UNCHANGED <<balance, marketProb, feed, connection, probCalls>>
  /\ UNCHANGED <<isActive, logs, tradesCount, secrets, risk, selectedMarket,
                 signer, apiCreds, modelProb, view, processingTrade, ticks,
                 riskEdits, envChanges>>

\* Math.round((book.bids[0]?.price || 0.5) * 100)
DisplayedProb(book) ==
  IF Len(book.bids) = 0 \/ book.bids[1] = 0 THEN 50 ELSE book.bids[1]

\* syncProbs once its two fetchOrderBook calls have resolved:
\* setMarketProbYes, setMarketProbNo
SyncMarketProbs(books) ==
  /\ view = Current
  /\ view.selectedMarket # "none"
  /\ marketProb' = [yes |-> DisplayedProb(books.yes),
                    no |-> DisplayedProb(books.no)]
  /\ marketProb' # marketProb
  /\ emitted' = <<>>
  /\ fetched' = NoBooks
  /\ handled' = "none"
  /\ UNCHANGED <<balance, feed, connection, probCalls>>
  /\ UNCHANGED <<sinceTimerArmed, isActive, logs, tradesCount, secrets, risk,
                 selectedMarket, signer, apiCreds, modelProb, view,
                 processingTrade, sinceLastTrade, ticks, riskEdits, envChanges>>

\* syncWallet once fetchWalletStats has settled: the balance is stored, or
\* the error is swallowed
SyncWallet(res, bal) ==
  /\ view.secrets.proxyAddress
  /\ balance' = IF res = "ok" THEN bal ELSE balance
  /\ handled' = IF res = "ok" THEN "none" ELSE "sync-failure"
  /\ emitted' = <<>>
  /\ fetched' = NoBooks
  /\ UNCHANGED <<sinceTimerArmed, isActive, logs, tradesCount, secrets, risk,
                 selectedMarket, signer, apiCreds, modelProb, view,
                 processingTrade, sinceLastTrade, ticks, riskEdits, envChanges,
                 marketProb, feed, connection, probCalls>>

\* the variables of the terminal, which the price feed does not touch
terminal ==
  <<sinceTimerArmed, isActive, logs, tradesCount, secrets, risk,
    selectedMarket, signer, apiCreds, modelProb, view, processingTrade,
    sinceLastTrade, ticks, emitted, riskEdits, envChanges, fetched, handled,
    balance, marketProb, lastProb, prevProb>>

\* Retained when nothing is pruned
Retained_All(history, limit) == history

\* priceHistory.filter(h => h.timestamp > limit)
Retained(history, limit) ==
  LET P(h) == h.timestamp > limit IN SelectSeq(history, P)

\* |x|
Abs(x) == IF x < 0 THEN 0 - x ELSE x

\* Nearer when a sample as near as the one held replaces it
Nearer_OrEqual(curr, prev, target) ==
  Abs(curr.timestamp - target) <= Abs(prev.timestamp - target)

\* Math.abs(curr.timestamp - target) < Math.abs(prev.timestamp - target)
Nearer(curr, prev, target) ==
  Abs(curr.timestamp - target) < Abs(prev.timestamp - target)

\* priceHistory.reduce((prev, curr) => ... ? curr : prev, priceHistory[0]),
\* from element i on
RECURSIVE Closest(_, _, _, _)
Closest(history, target, i, prev) ==
  IF i > Len(history) THEN prev
  ELSE Closest(history, target, i + 1,
               IF Nearer(history[i], prev, target) THEN history[i] ELSE prev)

\* getPrice15mAgo with Date.now() = now: reduce of an empty array gives its
\* initial value priceHistory[0], which is undefined
GetPrice15mAgo(history, now, current) ==
  IF history = <<>> THEN current
  ELSE Closest(history, now - LAG_MS, 1, history[1]).price

\* the sockets that are connecting or connected
Live == {s \in Sockets : sockets[s] = "open"}

\* the error event of a socket has been dispatched and its close event is
\* next: the WebSocket API fires both in one task when a connection fails,
\* so that no other handler, timer or effect runs in between
Dispatching == \E s \in Sockets : sockets[s] = "failed"

\* the WebSocket objects not created yet
Unused == {s \in Sockets : sockets[s] = "none"}

\* StartBTCStream without `if (ws) return`
StartBTCStream_Unguarded(w, ss) ==
  IF Unused = {} THEN [ws |-> w, sockets |-> ss]
  ELSE LET n == CHOOSE s \in Unused : \A t \in Unused : s <= t
       IN [ws |-> n, sockets |-> [ss EXCEPT ![n] = "open"]]

\* startBTCStream: `if (ws) return; ws = new WebSocket(WS_URL)`, the value of
\* ws and the sockets afterwards
StartBTCStream(w, ss) ==
  IF w # 0 \/ Unused = {} THEN [ws |-> w, sockets |-> ss]
  ELSE LET n == CHOOSE s \in Unused : \A t \in Unused : s <= t
       IN [ws |-> n, sockets |-> [ss EXCEPT ![n] = "open"]]

\* subscribeToBTC: the stream is started if there is none, and the
\* subscriber gets the current data at once if a price has been received
SubscribeToBTC ==
  /\ ~Dispatching
  /\ ws = 0 => Unused # {}
  /\ ws' = IF ws = 0 THEN StartBTCStream(ws, sockets).ws ELSE ws
  /\ sockets' = IF ws = 0 THEN StartBTCStream(ws, sockets).sockets ELSE sockets
  /\ btc15mAgo' = IF currentPrice > 0
                     THEN GetPrice15mAgo(priceHistory, clock, currentPrice)
                     ELSE btc15mAgo
  /\ UNCHANGED <<clock, priceHistory, currentPrice, reconnects>>
  /\ UNCHANGED terminal

\* ws.onerror of socket s: `ws = null; setTimeout(startBTCStream, 5000)`
OnError(s) ==
  /\ ~Dispatching
  /\ sockets[s] = "open"
  /\ sockets' = [sockets EXCEPT ![s] = "failed"]
  /\ ws' = 0
  /\ reconnects' = reconnects + 1
  /\ UNCHANGED feed
  /\ UNCHANGED terminal

\* ws.onclose of socket s, after its error event or for a connection that
\* is closed without one: `ws = null; setTimeout(startBTCStream, 5000)`
OnClose(s) ==
  /\ \/ sockets[s] = "failed"
     \/ sockets[s] = "open" /\ ~Dispatching
  /\ sockets' = [sockets EXCEPT ![s] = "closed"]
  /\ ws' = 0
  /\ reconnects' = reconnects + 1
  /\ UNCHANGED feed
  /\ UNCHANGED terminal

\* a timer set by onerror or onclose fires: startBTCStream
ReconnectTimer ==
  /\ ~Dispatching
  /\ reconnects > 0
  /\ Unused # {}
  /\ reconnects' = reconnects - 1
  /\ ws' = StartBTCStream(ws, sockets).ws
  /\ sockets' = StartBTCStream(ws, sockets).sockets
  /\ UNCHANGED feed
  /\ UNCHANGED terminal

\* ws.onmessage of a live socket: a ticker message with a price is recorded
\* and the history pruned, and the update goes to the subscribers;
\* Date.now() is read a second time for the limit, `later` after the first
\* reading
OnMessage(msg, later) ==
  /\ ~Dispatching
  /\ Live # {}
  /\ msg.type = "ticker" /\ msg.price # PriceAbsent
  /\ clock + later <= MaxClockSteps * StreamStepMs
  /\ LET pushed == Append(priceHistory,
                          [timestamp |-> clock, price |-> msg.price])
         limit == (clock + later) - HISTORY_WINDOW_MS
     IN /\ Len(Retained(pushed, limit)) <= MaxHistory
        /\ priceHistory' = Retained(pushed, limit)
  /\ currentPrice' = msg.price
  /\ clock' = clock + later
  /\ btc15mAgo' = GetPrice15mAgo(priceHistory', clock', currentPrice')
  /\ UNCHANGED connection
  /\ UNCHANGED terminal

\* ws.onmessage for a message that is no ticker or carries no price
OnOtherMessage(msg) ==
  /\ ~Dispatching
  /\ Live # {}
  /\ ~(msg.type = "ticker" /\ msg.price # PriceAbsent)
  /\ UNCHANGED <<feed, connection>>
  /\ UNCHANGED terminal

\* time passes between two messages of the feed
FeedAdvance ==
  /\ clock + StreamStepMs <= MaxClockSteps * StreamStepMs
  /\ clock' = clock + StreamStepMs
  /\ UNCHANGED <<priceHistory, currentPrice, btc15mAgo, connection>>
  /\ UNCHANGED terminal

\* Math.round of the fraction num / den, den > 0, when it rounds down
JsRound_Floor(num, den) == num \div den

\* Math.round of the fraction num / den, den > 0: to the nearest integer,
\* halves upwards
JsRound(num, den) == (2 * num + den) \div (2 * den)

\* calculateProbability when the distance to the strike counts double in
\* the last minutes before expiry
CalculateProbability_TimeWeighted(price, strikePrice, timeToExpiryMinutes, volatility, price15mAgo) ==
  IF price = 0 \/ price15mAgo = 0 THEN 50
  ELSE LET weight == IF timeToExpiryMinutes < 5 THEN 2 ELSE 1
           num == 50 * price15mAgo * strikePrice
                    + 2000 * (price - price15mAgo) * strikePrice
                    + weight * 1000 * (price - strikePrice) * price15mAgo
           den == price15mAgo * strikePrice
       IN Min(99, 0 - Min(-1, 0 - JsRound(num, den)))

\* calculateProbability: 50 + move * 2 + distance, as the fraction
\* num / den with den = price15mAgo * strikePrice, rounded and clamped;
\* the prices are positive where they are not 0
CalculateProbability(price, strikePrice, timeToExpiryMinutes, volatility, price15mAgo) ==
  IF price = 0 \/ price15mAgo = 0 THEN 50
  ELSE LET num == 50 * price15mAgo * strikePrice
                    + 2000 * (price - price15mAgo) * strikePrice
                    + 1000 * (price - strikePrice) * price15mAgo
           den == price15mAgo * strikePrice
       IN Min(99, 0 - Min(-1, 0 - JsRound(num, den)))

\* a call of calculateProbability; the two last calls are kept
CallCalculateProbability(a) ==
  /\ lastProb' =
       [args |-> a,
        result |-> CalculateProbability(a.price, a.strikePrice,
                                        a.timeToExpiryMinutes, a.volatility,
                                        a.price15mAgo)]
  /\ prevProb' = lastProb
  /\ emitted' = <<>>
  /\ fetched' = NoBooks
  /\ handled' = "none"
  /\ UNCHANGED <<balance, marketProb, feed, connection>>
  /\ UNCHANGED <<sinceTimerArmed, isActive, logs, tradesCount, secrets, risk,
                 selectedMarket, signer, apiCreds, modelProb, view,
                 processingTrade, sinceLastTrade, ticks, riskEdits, envChanges>>

\* the continuations of the invocations in flight, the commit and the clock
EngineSteps ==
  \/ \E tk \in BagToSet(ticks), b \in BookPairs : FetchReturn(tk, b)
  \/ \E tk \in BagToSet(ticks) : TickThrows(tk)
  \/ \E tk \in BagToSet(ticks), res \in OrderResults : SellReturn(tk, res)
  \/ \E tk \in BagToSet(ticks), res \in OrderResults : BuyReturn(tk, res)
  \/ Commit
  \/ Advance

\* login, credential derivation, proxy detection, first market and its
\* first syncProbs, RUN
SetupSteps ==
  \/ SetSigner(TRUE)
  \/ DeriveCredentials
  \/ DetectProxy
  \/ SelectFirstMarket
  \/ SyncProbs(85) /\ modelProb = InitialModelProb
  \/ ToggleBot /\ ~view.isActive

\* the whole system
Next ==
  \/ TickStart(MaxTicks)
  \/ EngineSteps
  \/ SetupSteps
  \/ ToggleBot /\ view.isActive
  \/ \E e \in RiskEdits : UpdateRisk(e)
  \/ SelectNextMarket
  \/ \E p \in ModelProbs : SyncProbs(p)
  \/ SetSigner(FALSE)
  \/ \E v \in BOOLEAN : UpdateSecrets(v)
  \/ \E res \in StatsResults, bal \in Balances : SyncWallet(res, bal)
  \/ \E msg \in FeedMessages, later \in {0, StreamStepMs} :
        OnMessage(msg, later)
  \/ \E msg \in FeedMessages : OnOtherMessage(msg)
  \/ FeedAdvance
  \/ SubscribeToBTC
  \/ \E s \in Sockets : OnError(s)
  \/ \E s \in Sockets : OnClose(s)
  \/ ReconnectTimer
  \/ AdvanceToPoll
  \/ \E b \in BookPairs : SyncMarketProbs(b)
  \/ \E a \in ProbabilityArgs : CallCalculateProbability(a)

Spec == Init /\ [][Next]_vars

\* ticks may overlap; the operator only sets the engine up and starts it
NextOverlap ==
  \/ TickStart(MaxTicks)
  \/ EngineSteps
  \/ SetupSteps

SpecOverlap == Init /\ [][NextOverlap]_vars

\* ticks may overlap, and the operator edits the risk policy
NextPolicy ==
  \/ NextOverlap
  \/ \E e \in RiskEdits : UpdateRisk(e)

SpecPolicy == Init /\ [][NextPolicy]_vars

\* ticks may overlap; the operator sets the buy limit before the engine
\* trades and leaves the risk policy alone afterwards
NextLimit ==
  \/ NextOverlap
  \/ \E e \in LimitEdits : UpdateRisk(e) /\ ~TradingBegun

SpecLimit == Init /\ [][NextLimit]_vars

\* every fetch and submission settles within one timer period (one
\* invocation at a time)
NextSerial ==
  \/ TickStart(1)
  \/ EngineSteps
  \/ SetupSteps

\* one invocation at a time; the risk fields of the entry trigger change,
\* and the model probability falls to 15
NextEntry ==
  \/ NextSerial
  \/ \E e \in EntryEdits : UpdateRisk(e)
  \/ SyncProbs(15)

SpecEntry == Init /\ [][NextEntry]_vars

\* one invocation at a time; the share sold at take profit changes, and
\* the model probability falls to 15
NextExit ==
  \/ NextSerial
  \/ \E e \in ExitEdits : UpdateRisk(e)
  \/ SyncProbs(15)

SpecExit == Init /\ [][NextExit]_vars

\* one invocation at a time; the wallet context changes and the operator
\* starts and stops the engine
NextConfig ==
  \/ TickStart(1)
  \/ EngineSteps
  \/ SetupSteps
  \/ ToggleBot /\ view.isActive
  \/ SetSigner(FALSE)
  \/ \E v \in BOOLEAN : UpdateSecrets(v)

SpecConfig == Init /\ [][NextConfig]_vars

\* one invocation at a time; the operator changes the buy limit
NextCap ==
  \/ NextSerial
  \/ \E e \in LimitEdits : UpdateRisk(e)

SpecCap == Init /\ [][NextCap]_vars

\* one invocation at a time, the wallet context changes, the operator
\* starts and stops the engine, and the wallet balance is synchronised
NextWallet ==
  \/ NextConfig
  \/ \E res \in StatsResults, bal \in Balances : SyncWallet(res, bal)

SpecWallet == Init /\ [][NextWallet]_vars

\* one invocation at a time; books arrive with one side empty, the edge
\* threshold is set to 0, and the model probability falls to 15
NextBooks ==
  \/ NextSerial
  \/ \E tk \in BagToSet(ticks), b \in OneSidedPairs : FetchReturn(tk, b)
  \/ \E e \in EdgeEdits : UpdateRisk(e)
  \/ SyncProbs(15)

SpecBooks == Init /\ [][NextBooks]_vars

\* one invocation at a time, and syncProbs runs every 4 s: the model
\* probability and the displayed market probabilities change
NextTimer ==
  \/ NextSerial
  \/ AdvanceToPoll
  \/ \E p \in ModelProbs : SyncProbs(p)
  \/ \E b \in BookPairs : SyncMarketProbs(b)

SpecTimer == Init /\ [][NextTimer]_vars

\* SpecTimer where time passes, React commits, a timer that is due fires,
\* and every fetch and every submission settles
LiveTimer ==
  /\ SpecTimer
  /\ SF_vars(Advance \/ AdvanceToPoll)
  /\ WF_vars(Commit)
  /\ SF_vars(TickStart(1))
  /\ WF_vars(\E tk \in BagToSet(ticks) :
               \/ TickThrows(tk)
               \/ \E b \in BookPairs : FetchReturn(tk, b))
  /\ WF_vars(\E tk \in BagToSet(ticks), res \in OrderResults :
               SellReturn(tk, res))
  /\ WF_vars(\E tk \in BagToSet(ticks), res \in OrderResults :
               BuyReturn(tk, res))

\* the two edits after which both sides can trigger in a market that is at
\* its buy limit after one BUY
SideEdits ==
  {e \in RiskEdits : e.f \in {"minProbThreshold", "maxBuyCountPerMarket"}}

\* one invocation at a time; the operator lowers the probability threshold
\* and the buy limit, one edit more than in the other specifications
NextSides ==
  \/ NextSerial
  \/ \E e \in SideEdits : EditRisk(e, MaxRiskEdits + 1)

SpecSides == Init /\ [][NextSides]_vars

\* one invocation at a time; the selected market expires and the next
\* market of the series is selected, also while a tick is in flight
NextMarkets ==
  \/ NextSerial
  \/ SelectNextMarket

SpecMarkets == Init /\ [][NextMarkets]_vars


\* the price feed alone
NextFeed ==
  \/ SubscribeToBTC
  \/ \E msg \in FeedMessages, later \in {0, StreamStepMs} :
        OnMessage(msg, later)
  \/ \E msg \in FeedMessages : OnOtherMessage(msg)
  \/ FeedAdvance

SpecFeed == Init /\ [][NextFeed]_vars

\* the connection of the price feed: subscriptions, failures and closes of
\* its sockets, the reconnect timers, and the messages of the live socket
NextConnection ==
  \/ SubscribeToBTC
  \/ \E s \in Sockets : OnError(s)
  \/ \E s \in Sockets : OnClose(s)
  \/ ReconnectTimer
  \/ \E msg \in FeedMessages : OnMessage(msg, 0)
  \/ FeedAdvance

SpecConnection == Init /\ [][NextConnection]_vars

\* timestamps of the samples of a price history
Timestamps == {k * StreamStepMs : k \in 0 .. MaxClockSteps}

\* the price histories the stream can hold: in ascending order of
\* timestamps, every sample within the retention window of the last one
Histories ==
  {h \in UNION {[1 .. n -> [timestamp : Timestamps, price : Prices]] :
                  n \in 0 .. MaxHistory} :
     /\ \A i, j \in DOMAIN h : i < j => h[i].timestamp <= h[j].timestamp
     /\ \A i \in DOMAIN h :
          h[Len(h)].timestamp - h[i].timestamp < HISTORY_WINDOW_MS}

\* getPrice15mAgo as a function of the module state it reads: any history,
\* any current price, any time not before the last sample
InitLagged ==
  /\ InitTerminal
  /\ priceHistory \in Histories
  /\ clock \in Timestamps
  /\ \A i \in DOMAIN priceHistory : priceHistory[i].timestamp <= clock
  /\ currentPrice \in Prices \cup {0}

\* a call of getPrice15mAgo, its result delivered as price15mAgo
CallGetPrice15mAgo ==
  /\ btc15mAgo' = GetPrice15mAgo(priceHistory, clock, currentPrice)
  /\ UNCHANGED <<clock, priceHistory, currentPrice, connection>>
  /\ UNCHANGED terminal

NextLagged == CallGetPrice15mAgo

SpecLagged == InitLagged /\ [][NextLagged]_vars

NextProbability == \E a \in ProbabilityArgs : CallCalculateProbability(a)

SpecProbability == Init /\ [][NextProbability]_vars

\* ------------------------------------------------------------- properties
\* the invocations awaiting placeOrderWithClient
InFlight ==
  LET S == {tk \in BagToSet(ticks) : tk.pc \in {"sell", "buy"}}
  IN [tk \in S |-> CopiesIn(tk, ticks)]

\* C1: at most one order submission (BUY or SELL) is in flight at any time,
\* also when a tick fires while an earlier one awaits its fetch or its order.
C1_AtMostOneSubmissionInFlight == BagCardinality(InFlight) <= 1

\* an invocation reaches local state r in this step
Reaches(r) == CopiesIn(r, ticks') > CopiesIn(r, ticks)

\* an invocation in local state r runs on in this step
Leaves(r) == CopiesIn(r, ticks') < CopiesIn(r, ticks)

\* the local states reached in this step by a call of placeOrderWithClient
SubmittedSells == {r \in BagToSet(ticks') : r.pc = "sell" /\ Reaches(r)}
SubmittedBuys == {r \in BagToSet(ticks') : r.pc = "buy" /\ Reaches(r)}

\* the interval timer fires in this step: runEngine is entered
TimerFires ==
  /\ sinceTimerArmed >= TICK_MS
  /\ sinceTimerArmed' = 0
  /\ view' = view

\* the ledger entry with a given id
EntryOf(ls, id) == ls[CHOOSE i \in DOMAIN ls : ls[i].id = id]

\* C2: once an entry is PARTIAL or CLOSED no tick submits a take-profit SELL
\* for it: every SELL submission is for an entry that is OPEN in the ledger.
C2_StatusGatesExit ==
  [][\A r \in SubmittedSells :
       EntryOf(logs', r.openTrades[r.idx].id).status = "OPEN"]_vars

\* C3: an entry that is CLOSED stays CLOSED in every later state.
C3_ClosedIsTerminal ==
  [][\A i \in DOMAIN logs :
       logs[i].status = "CLOSED" => logs'[i].status = "CLOSED"]_vars

\* C4: while the risk policy is not edited once trading has begun, no market
\* has more BUY entries in the ledger than maxBuyCountPerMarket.
C4_BuyCountWithinLimit ==
  \A m \in Markets : BuyCount(logs, m) <= risk.maxBuyCountPerMarket

\* C5: a tick that reaches its entry evaluation less than 15 s after the last
\* successful BUY submits no BUY (its take-profit SELLs are not restricted).
C5_CooldownGate ==
  [][SubmittedBuys # {} => sinceLastTrade >= COOLDOWN_MS]_vars

\* a tick, 5 s after the only BUY, has checked the open position for take
\* profit and has returned at the cooldown gate: no entry analysis, no BUY
C5_Witness ==
  /\ sinceLastTrade = TICK_MS
  /\ Len(logs) = 1
  /\ BagToSet(ticks) = {}
  /\ emitted = <<Ev("INFO", "clob-depth"), Ev("INFO", "checking-positions")>>

\* C6: the side of a BUY is YES whenever the YES conditions hold and NO only
\* when the NO conditions hold; a tick ends when its BUY settles, so it
\* submits at most one BUY.
C6_EntryMutuallyExclusive ==
  [][/\ \A tk \in SubmittedBuys :
          LET yes == /\ tk.risk.directionBias \in {"BOTH", "YES_ONLY"}
                     /\ tk.modelProb >= tk.risk.minProbThreshold
                     /\ tk.modelProb - tk.bestYesAsk >= tk.risk.edgeThreshold
              no == /\ tk.risk.directionBias \in {"BOTH", "NO_ONLY"}
                    /\ 100 - tk.modelProb >= tk.risk.minProbThreshold
                    /\ (100 - tk.modelProb) - tk.bestNoAsk
                          >= tk.risk.edgeThreshold
          IN /\ tk.order.side = "BUY"
             /\ tk.order.outcome \in Outcomes
             /\ yes => tk.order.outcome = "YES"
             /\ tk.order.outcome = "YES" => yes
             /\ tk.order.outcome = "NO" => no
     /\ \A tk \in BagToSet(ticks) :
          (tk.pc = "buy" /\ Leaves(tk)) =>
             /\ BagCardinality(ticks') = BagCardinality(ticks) - 1
             /\ \A r \in BagToSet(ticks') : ~Reaches(r)]_vars

\* a BUY of YES is in flight although the NO conditions hold as well
C6_Witness ==
  \E tk \in BagToSet(ticks) :
    /\ tk.pc = "buy"
    /\ YesCondition(tk)
    /\ NoCondition(tk)
    /\ tk.order.outcome = "YES"

\* C7: a tick that starts with the engine active and a market selected while
\* the signer, the credentials, the proxy address or the isConfigured flag is
\* missing sets isActive to false, logs one ERROR, and starts no fetch, no
\* submission and no ledger change.
C7_ConfigHardHalt ==
  [][(/\ TimerFires
      /\ view.isActive
      /\ view.selectedMarket # "none"
      /\ \/ ~view.signer
         \/ ~view.apiCreds
         \/ ~view.secrets.proxyAddress
         \/ ~view.secrets.isConfigured)
     => /\ isActive' = FALSE
        /\ emitted' = <<Ev("ERROR", "halted")>>
        /\ fetched' = NoBooks
        /\ UNCHANGED <<ticks, logs, tradesCount, processingTrade,
                       sinceLastTrade>>]_vars

\* the engine has been halted by a tick that found no signer
C7_Witness ==
  /\ ~isActive
  /\ view.isActive
  /\ ~view.signer
  /\ emitted = <<Ev("ERROR", "halted")>>

\* C8: a tick that finds the processing lock set logs one WARN and does
\* nothing else: no fetch, no evaluation, no submission, no change of the
\* ledger, the lock or the last trade time, and no invocation left behind.
C8_LockedTickIsNoOp ==
  [][(/\ TimerFires
      /\ view.isActive
      /\ view.selectedMarket # "none"
      /\ view.signer /\ view.apiCreds
      /\ view.secrets.proxyAddress /\ view.secrets.isConfigured
      /\ processingTrade)
     => /\ emitted' = <<Ev("WARN", "skip-tick")>>
        /\ fetched' = NoBooks
        /\ UNCHANGED <<ticks, logs, tradesCount, processingTrade,
                       sinceLastTrade, isActive>>]_vars

\* a tick has been skipped while a submission is in flight
C8_Witness ==
  /\ processingTrade
  /\ BagCardinality(InFlight) > 0
  /\ sinceTimerArmed = 0
  /\ emitted = <<Ev("WARN", "skip-tick")>>

\* one invocation at a time, and every submission in flight settles
LiveExit ==
  /\ SpecExit
  /\ WF_vars(\E tk \in BagToSet(ticks), res \in OrderResults :
               SellReturn(tk, res))
  /\ WF_vars(\E tk \in BagToSet(ticks), res \in OrderResults :
               BuyReturn(tk, res))

\* C9: whenever the lock is set it is eventually cleared, whether the
\* submission succeeds or fails.
C9_LockReleased == processingTrade ~> ~processingTrade

\* the lock is clear right after a BUY submission has failed
C9_Witness ==
  /\ ~processingTrade
  /\ emitted = <<Ev("ERROR", "entry-failed")>>
  /\ BagToSet(ticks) = {}

\* position k of the trades triggers under the bids: bid > 0 and
\* (bid - entryPrice) / entryPrice * 100 >= takeProfitPct
TakeProfitDue(trades, k, yesBid, noBid, tp) ==
  LET bid == IF trades[k].outcome = "YES" THEN yesBid ELSE noBid IN
  /\ bid > 0
  /\ (bid - trades[k].entryPrice) * 100 >= tp * trades[k].entryPrice

\* after position i, the tick went on to the first position that triggers
\* and submitted its SELL, or to the end of the loop when none triggers
NextSellIsFirstDue(i, trades, yesBid, noBid, tp) ==
  LET due == {k \in (i + 1)..Len(trades) :
                TakeProfitDue(trades, k, yesBid, noBid, tp)} IN
  IF due = {}
    THEN SubmittedSells = {}
    ELSE \E new \in SubmittedSells :
           /\ SubmittedSells = {new}
           /\ new.openTrades = trades
           /\ new.idx \in due
           /\ \A k \in due : new.idx <= k

\* C10: a tick evaluates the entries that are OPEN in the selected market;
\* each of them whose bid is > 0 and whose pnlPct reaches takeProfitPct gets
\* one SELL at bid - 0.01 for size * sellAmountPct / 100 of its outcome token,
\* and after success the status CLOSED (sellAmountPct = 100) or PARTIAL; the
\* other positions get no SELL and keep their status.
C10_TakeProfitRule ==
  [][\* the positions evaluated are the OPEN ones of the selected market
     /\ \A new \in BagToSet(ticks') :
          (new.pc = "fetch" /\ Reaches(new)) =>
            /\ \A k \in DOMAIN new.openTrades :
                 /\ new.openTrades[k].status = "OPEN"
                 /\ new.openTrades[k].marketId = view.selectedMarket
            /\ Len(new.openTrades) =
                 Cardinality({i \in DOMAIN view.logs :
                                /\ view.logs[i].status = "OPEN"
                                /\ view.logs[i].marketId = view.selectedMarket})
     /\ \A old \in BagToSet(ticks) :
          \* the books arrive: the first position that triggers is sold
          /\ (old.pc = "fetch" /\ Leaves(old)
                /\ emitted' # <<Ev("ERROR", "critical")>>) =>
               NextSellIsFirstDue(0, old.openTrades,
                                  BestBid(fetched'.yes), BestBid(fetched'.no),
                                  old.risk.takeProfitPct)
          \* a SELL settles: the status, then the next position that triggers
          /\ (old.pc = "sell" /\ Leaves(old)) =>
               LET id == old.openTrades[old.idx].id IN
               /\ NextSellIsFirstDue(old.idx, old.openTrades,
                                     old.bestYesBid, old.bestNoBid,
                                     old.risk.takeProfitPct)
               /\ IF Head(emitted') = Ev("SUCCESS", "tp-executed")
                    THEN /\ EntryOf(logs', id).status =
                              (IF old.risk.sellAmountPct = 100
                                 THEN "CLOSED" ELSE "PARTIAL")
                         /\ \A i \in DOMAIN logs :
                              logs[i].id # id => logs'[i] = logs[i]
                    ELSE logs' = logs
     \* the order of a SELL in flight
     /\ \A new \in BagToSet(ticks') :
          new.pc = "sell" =>
            LET trade == new.openTrades[new.idx]
                bid == IF trade.outcome = "YES"
                         THEN new.bestYesBid ELSE new.bestNoBid IN
            /\ new.order.side = "SELL"
            /\ new.order.marketId = new.market
            /\ new.order.outcome = trade.outcome
            /\ new.order.price = bid - 1
            /\ new.order.size.n * trade.size.d * 100 =
                 trade.size.n * new.risk.sellAmountPct * new.order.size.d
     \* no other step changes an entry of the ledger
     /\ (\A old \in BagToSet(ticks) : old.pc = "sell" => ~Leaves(old)) =>
          \A i \in DOMAIN logs : logs'[i] = logs[i]]_vars

\* a take-profit SELL of half of the NO position has succeeded and the
\* entry is PARTIAL, while the YES position of the same market, whose bid is
\* below the trigger, got no SELL and is still OPEN
C10_Witness ==
  /\ Len(logs) = 2
  /\ logs[1].marketId = logs[2].marketId
  /\ \E i, j \in DOMAIN logs :
       /\ logs[i].status = "PARTIAL" /\ logs[i].outcome = "NO"
       /\ logs[j].status = "OPEN" /\ logs[j].outcome = "YES"
  /\ BagToSet(ticks) = {}
  /\ emitted # <<>>
  /\ Head(emitted) = Ev("SUCCESS", "tp-executed")

\* the step just taken has put an entry of this type and message on the log
Emits(type, msg) == \E i \in DOMAIN emitted' : emitted'[i] = Ev(type, msg)

\* C11: when a take-profit SELL fails, the ledger is unchanged (a position
\* that is OPEN stays OPEN), an ERROR is logged, the SELL is not submitted
\* again, the tick goes on to the next position of its list that triggers and
\* sells it, and after the last position the cooldown gate and the entry
\* evaluation run.
C11_FailedSellIsolated ==
  [][\A old \in BagToSet(ticks) :
       (old.pc = "sell" /\ Leaves(old)
          /\ handled' \in {"sell-auth", "sell-generic"}) =>
         LET id == old.openTrades[old.idx].id IN
         /\ logs' = logs
         /\ EntryOf(logs, id).status = "OPEN" =>
              EntryOf(logs', id).status = "OPEN"
         /\ Head(emitted').type = "ERROR"
         /\ \A new \in SubmittedSells : new.idx > old.idx
         /\ NextSellIsFirstDue(old.idx, old.openTrades,
                               old.bestYesBid, old.bestNoBid,
                               old.risk.takeProfitPct)
         /\ SubmittedSells = {} =>
              IF sinceLastTrade < COOLDOWN_MS
                THEN SubmittedBuys = {} /\ ~Emits("INFO", "alpha")
                ELSE Emits("INFO", "alpha")]_vars

\* the SELL of the first of two open positions has failed, the position is
\* still OPEN, and the SELL of the second position is in flight
C11_Witness ==
  /\ handled \in {"sell-auth", "sell-generic"}
  /\ Len(logs) = 2
  /\ logs[1].status = "OPEN"
  /\ \E tk \in BagToSet(ticks) :
       /\ tk.pc = "sell"
       /\ tk.idx = 2
       /\ tk.openTrades[1].id = logs[1].id

\* C12: when a BUY submission fails, the ledger, tradesCount, the time of the
\* last trade and isActive are unchanged, the lock is released, an ERROR is
\* logged and the tick submits nothing more; and the ledger grows only by the
\* entry of a BUY whose submission has just succeeded.
C12_FailedBuyChangesNothing ==
  [][/\ \A old \in BagToSet(ticks) :
          (old.pc = "buy" /\ Leaves(old)
             /\ handled' \in {"buy-auth", "buy-generic"}) =>
            /\ UNCHANGED <<logs, tradesCount, sinceLastTrade, isActive>>
            /\ processingTrade' = FALSE
            /\ Head(emitted').type = "ERROR"
            /\ SubmittedBuys = {} /\ SubmittedSells = {}
            /\ BagCardinality(ticks') = BagCardinality(ticks) - 1
     /\ Len(logs') # Len(logs) =>
          /\ handled' = "none"
          /\ Emits("SUCCESS", "order-confirmed")
          /\ tradesCount' = tradesCount + 1
          /\ \E old \in BagToSet(ticks) :
               /\ old.pc = "buy" /\ Leaves(old)
               /\ Len(logs') = Len(logs) + 1
               /\ SubSeq(logs', 1, Len(logs)) = logs
               /\ logs'[Len(logs')].side = "BUY"
               /\ logs'[Len(logs')].status = "OPEN"
               /\ logs'[Len(logs')].marketId = old.order.marketId
               /\ logs'[Len(logs')].outcome = old.order.outcome]_vars

\* the first BUY has been rejected for its credentials: nothing is in the
\* ledger, the lock is clear and the engine is still active
C12_Witness ==
  /\ handled = "buy-auth"
  /\ logs = <<>>
  /\ tradesCount = 0
  /\ ~processingTrade
  /\ isActive
  /\ BagToSet(ticks) = {}

\* an entry of this type and message was put on the log by the step just taken
Emitted(type, msg) == \E i \in DOMAIN emitted : emitted[i] = Ev(type, msg)

\* C13: a failure of a BUY or of a take-profit SELL whose message names 401,
\* "unauthorized" or "invalid api key" is logged as the authorization error
\* with its remediation guidance; any other failure is logged as the generic
\* failure message.
C13_FailuresClassified ==
  /\ handled \in {"buy-auth", "sell-auth"} =>
       /\ Emitted("ERROR", "auth-error")
       /\ Emitted("ERROR", "fix-1")
       /\ Emitted("ERROR", "fix-2")
       /\ Emitted("ERROR", "fix-3")
  /\ handled = "buy-generic" =>
       Emitted("ERROR", "entry-failed") /\ ~Emitted("ERROR", "auth-error")
  /\ handled = "sell-generic" =>
       Emitted("ERROR", "tp-failed") /\ ~Emitted("ERROR", "auth-error")

\* C14: an exception that reaches the outer catch ends its tick with an ERROR
\* entry and nothing else: isActive, the ledger and the last trade time are
\* unchanged, the lock is clear, no invocation is left behind; and a timer
\* tick that finds the engine active and configured and the lock clear starts
\* the full evaluation with its fetch.
C14_TickExceptionNotFatal ==
  [][/\ \A old \in BagToSet(ticks) :
          (Leaves(old) /\ handled' = "tick-exception") =>
            /\ Emits("ERROR", "critical")
            /\ UNCHANGED <<isActive, logs, tradesCount, sinceLastTrade>>
            /\ processingTrade' = FALSE
            /\ BagCardinality(ticks') = BagCardinality(ticks) - 1
            /\ \A r \in BagToSet(ticks') : ~Reaches(r)
     /\ (/\ TimerFires
         /\ view.isActive
         /\ view.selectedMarket # "none"
         /\ view.signer /\ view.apiCreds
         /\ view.secrets.proxyAddress /\ view.secrets.isConfigured
         /\ ~processingTrade) =>
           \E new \in BagToSet(ticks') :
             /\ new.pc = "fetch"
             /\ Reaches(new)
             /\ Emits("INFO", "fetching")]_vars

\* a tick with a position in the ledger has ended in the outer catch: the
\* engine is active, the lock is clear and no invocation is left
C14_Witness ==
  /\ handled = "tick-exception"
  /\ isActive /\ view.isActive
  /\ ~processingTrade
  /\ Len(logs) = 1
  /\ BagToSet(ticks) = {}

\* one invocation at a time, the operator starts and stops the engine, and
\* every submission in flight settles
LiveConfig ==
  /\ SpecConfig
  /\ WF_vars(\E tk \in BagToSet(ticks), res \in OrderResults :
               SellReturn(tk, res))
  /\ WF_vars(\E tk \in BagToSet(ticks), res \in OrderResults :
               BuyReturn(tk, res))

\* C15: a tick that starts while isActive is false (as runEngine reads it)
\* submits nothing and changes nothing; the operator's STOP leaves the
\* invocations in flight and the lock as they are; a submission that settles
\* while the engine is inactive records its result in the ledger; and every
\* submission in flight once the engine is inactive completes and the lock
\* is released.
C15_DeactivationAtTickBoundary ==
  /\ [][/\ (TimerFires /\ ~view.isActive) =>
             /\ emitted' = <<>>
             /\ fetched' = NoBooks
             /\ UNCHANGED <<isActive, logs, tradesCount, secrets, risk,
                            selectedMarket, signer, apiCreds, modelProb,
                            processingTrade, sinceLastTrade, ticks, balance>>
        /\ (isActive /\ ~isActive' /\ handled' = "none") =>
             UNCHANGED <<ticks, processingTrade, logs, tradesCount>>
        /\ \A old \in BagToSet(ticks) :
             (~isActive /\ Leaves(old) /\ handled' = "none") =>
               /\ old.pc = "buy" =>
                    /\ Len(logs') = Len(logs) + 1
                    /\ processingTrade' = FALSE
               /\ old.pc = "sell" =>
                    /\ EntryOf(logs', old.openTrades[old.idx].id).status
                         \in {"PARTIAL", "CLOSED"}
                    /\ SubmittedSells = {} => processingTrade' = FALSE]_vars
  /\ (~isActive /\ BagCardinality(InFlight) > 0)
        ~> (BagCardinality(InFlight) = 0 /\ ~processingTrade)

\* the operator has stopped the engine and, since, the BUY that was in
\* flight has been confirmed and entered in the ledger, and the lock released
C15_Witness ==
  /\ ~isActive /\ ~view.isActive
  /\ handled = "none"
  /\ emitted = <<Ev("SUCCESS", "order-confirmed")>>
  /\ Len(logs) = 1
  /\ ~processingTrade
  /\ BagToSet(ticks) = {}

BuysOf(ls, m) ==
  {i \in DOMAIN ls : ls[i].marketId = m /\ ls[i].side = "BUY"}

\* C17: the number of BUY entries of a market never decreases, whatever the
\* status of the entries, and no BUY is submitted for a market whose ledger
\* already holds maxBuyCountPerMarket BUY entries, OPEN, PARTIAL or CLOSED.
C17_BuyCountLifetimeCap ==
  [][/\ \A m \in Markets :
          Cardinality(BuysOf(logs', m)) >= Cardinality(BuysOf(logs, m))
     /\ \A new \in SubmittedBuys :
          Cardinality(BuysOf(logs, new.market))
             < new.risk.maxBuyCountPerMarket]_vars

\* under a limit of one BUY, the only position of the market is CLOSED and a
\* tick whose books trigger an entry has been stopped at the buy limit
C17_Witness ==
  /\ risk.maxBuyCountPerMarket = 1
  /\ Len(logs) = 1
  /\ logs[1].status = "CLOSED"
  /\ Emitted("WARN", "buy-limit")
  /\ BagToSet(ticks) = {}

\* C18: the ledger only grows, by one entry appended at its end; no entry is
\* removed or moved; an entry changes in its status only, and only the entry
\* whose id is the one of the take-profit SELL that has just settled.
C18_LedgerAppendOnly ==
  [][/\ Len(logs') \in {Len(logs), Len(logs) + 1}
     /\ \A i \in DOMAIN logs :
          /\ [logs'[i] EXCEPT !.status = logs[i].status] = logs[i]
          /\ logs'[i].status # logs[i].status =>
               \E old \in BagToSet(ticks) :
                 /\ old.pc = "sell" /\ Leaves(old)
                 /\ old.openTrades[old.idx].id = logs[i].id
                 /\ \A j \in DOMAIN logs : j # i => logs'[j] = logs[j]]_vars

\* a take-profit SELL has just succeeded for one of two positions: its
\* status has changed, the other entry is as it was appended
C18_Witness ==
  /\ Len(logs) = 2
  /\ Emitted("SUCCESS", "tp-executed")
  /\ \E i, j \in DOMAIN logs :
       /\ logs[i].status \in {"PARTIAL", "CLOSED"}
       /\ logs[j].status = "OPEN"
       /\ logs[i].id # logs[j].id

C20_HistoryAfterRecord ==
  [][priceHistory' # priceHistory =>
       LET h == priceHistory' IN
       /\ h # <<>>
       /\ h[Len(h)] = [timestamp |-> clock, price |-> currentPrice']
       /\ \A i, j \in DOMAIN h : i < j => h[i].timestamp <= h[j].timestamp
       /\ \A i \in DOMAIN h :
            clock - h[i].timestamp <= HISTORY_WINDOW_MS]_vars

\* the history holds two samples of different prices, recorded 10 minutes
\* apart, the later one being the current price
C20_Witness ==
  /\ Len(priceHistory) = 2
  /\ priceHistory[1].timestamp = 2 * StreamStepMs
  /\ priceHistory[2].timestamp = 3 * StreamStepMs
  /\ priceHistory[1].price # priceHistory[2].price
  /\ currentPrice = priceHistory[2].price

\* C21: getPrice15mAgo returns the current price when the history is empty,
\* and otherwise the price of the sample stored first among those whose
\* timestamp is at the smallest absolute distance from 15 minutes before now.
C21_LaggedPriceNearestFirst ==
  [][btc15mAgo' =
       IF Len(priceHistory) = 0 THEN currentPrice
       ELSE LET distance(i) ==
                  IF priceHistory[i].timestamp >= clock - 15 * 60 * 1000
                    THEN priceHistory[i].timestamp - (clock - 15 * 60 * 1000)
                    ELSE (clock - 15 * 60 * 1000) - priceHistory[i].timestamp
                nearest == {i \in DOMAIN priceHistory :
                              \A j \in DOMAIN priceHistory :
                                 distance(i) <= distance(j)}
                first == CHOOSE i \in nearest : \A j \in nearest : i <= j
            IN priceHistory[first].price]_vars

\* two samples of different prices are equally near to 15 minutes before
\* now, 5 minutes on either side, and the price delivered is that of the
\* one stored first
C21_Witness ==
  /\ Len(priceHistory) = 2
  /\ priceHistory[1].timestamp = clock - 20 * 60 * 1000
  /\ priceHistory[2].timestamp = clock - 10 * 60 * 1000
  /\ priceHistory[1].price # priceHistory[2].price
  /\ btc15mAgo = priceHistory[1].price

\* C22: calculateProbability returns an integer from 1 to 99; it returns 50
\* when the current or the lagged price is 0, and for nonzero prices the
\* integer nearest to x = 50 + 2*(current-lagged)/lagged*1000 +
\* (current-strike)/strike*1000 (halves upwards), held to 1..99: x >= r - 1/2
\* unless r = 1, and x < r + 1/2 unless r = 99.  Hence 50 when the three
\* prices are equal.
C22_ProbabilityRoundedAndClamped ==
  lastProb.result # 0 =>
    LET c == lastProb.args.price
        k == lastProb.args.strikePrice
        l == lastProb.args.price15mAgo
        r == lastProb.result
        \* x * l * k, where l * k > 0
        xlk == 50 * l * k + 2 * (c - l) * 1000 * k + (c - k) * 1000 * l
    IN /\ r \in 1 .. 99
       /\ (c = 0 \/ l = 0) => r = 50
       /\ (c # 0 /\ l # 0 /\ k # 0) =>
            /\ l * k > 0
            /\ r > 1 => 2 * xlk >= (2 * r - 1) * l * k
            /\ r < 99 => 2 * xlk < (2 * r + 1) * l * k
       /\ (c # 0 /\ c = l /\ l = k) => r = 50

\* a call with x = 50 + 2 * 10 + 20.2.. = 90.2.. returned 90, after a call
\* that was held to 99
C22_Witness ==
  /\ lastProb.args.price = 1010
  /\ lastProb.args.price15mAgo = 1000
  /\ lastProb.args.strikePrice = 990
  /\ lastProb.result = 90
  /\ prevProb.args.price = 1050
  /\ prevProb.args.price15mAgo = 1000
  /\ prevProb.result = 99

\* C23: two calls of calculateProbability that agree on the current price,
\* the strike and the lagged price return the same probability, whatever
\* their minutes to expiry and their volatilities.
C23_IndependentOfExpiry ==
  (/\ lastProb.result # 0
   /\ prevProb.result # 0
   /\ lastProb.args.price = prevProb.args.price
   /\ lastProb.args.strikePrice = prevProb.args.strikePrice
   /\ lastProb.args.price15mAgo = prevProb.args.price15mAgo)
    => lastProb.result = prevProb.result

\* two calls for the same prices, one at expiry and one 10 minutes before,
\* at different volatilities, both returned 12
C23_Witness ==
  /\ lastProb.args.price = 990
  /\ lastProb.args.strikePrice = 1000
  /\ lastProb.args.price15mAgo = 1004
  /\ lastProb.args.timeToExpiryMinutes = 0
  /\ prevProb.args.timeToExpiryMinutes = 10
  /\ lastProb.args.volatility # prevProb.args.volatility
  /\ prevProb.args.price = 990
  /\ prevProb.args.strikePrice = 1000
  /\ prevProb.args.price15mAgo = 1004
  /\ lastProb.result = 12
  /\ prevProb.result = 12

\* C24: when the books arrive with the ask list of a side empty, the tick
\* takes 1 (100 cents) as the ask of that side and submits no BUY on it; with
\* the bid list of a side empty it takes 0 as the bid and submits no
\* take-profit SELL for a position on that side.  Every BUY is at an ask
\* below 1 and every SELL at a bid above 0, also the later SELLs of a tick.
C24_EmptySideDefaults ==
  [][/\ \A old \in BagToSet(ticks) :
          (old.pc = "fetch" /\ Leaves(old)) =>
            \A new \in BagToSet(ticks') :
               Reaches(new) =>
                 /\ Len(fetched'.yes.asks) = 0 =>
                      /\ new.bestYesAsk = 100
                      /\ ~(new.pc = "buy" /\ new.order.outcome = "YES")
                 /\ Len(fetched'.no.asks) = 0 =>
                      /\ new.bestNoAsk = 100
                      /\ ~(new.pc = "buy" /\ new.order.outcome = "NO")
                 /\ Len(fetched'.yes.bids) = 0 =>
                      /\ new.bestYesBid = 0
                      /\ ~(new.pc = "sell" /\ new.order.outcome = "YES")
                 /\ Len(fetched'.no.bids) = 0 =>
                      /\ new.bestNoBid = 0
                      /\ ~(new.pc = "sell" /\ new.order.outcome = "NO")
     /\ \A new \in SubmittedBuys :
          (IF new.order.outcome = "YES"
             THEN new.bestYesAsk ELSE new.bestNoAsk) < 100
     /\ \A new \in SubmittedSells :
          (IF new.order.outcome = "YES"
             THEN new.bestYesBid ELSE new.bestNoBid) > 0]_vars

\* a tick past the cooldown, at model probability 15 and with an OPEN YES
\* position, got a YES book without bids and a NO book without asks: it
\* checked the position, analysed the entry, and ended without an order
C24_Witness ==
  /\ Len(fetched.yes.bids) = 0
  /\ Len(fetched.no.asks) = 0
  /\ fetched.yes.asks # <<>>
  /\ view.modelProb = 15
  /\ sinceLastTrade >= COOLDOWN_MS
  /\ \E i \in DOMAIN view.logs :
       /\ view.logs[i].status = "OPEN"
       /\ view.logs[i].outcome = "YES"
       /\ view.logs[i].marketId = view.selectedMarket
  /\ Head(emitted) = Ev("INFO", "clob-depth")
  /\ BagToSet(ticks) = {}

\* C25: a tick whose entry analysis finds a side triggered (YES first) while
\* the market has fewer BUY entries than maxBuyCountPerMarket submits one BUY:
\* that side's token, at the side's best ask + 0.01, for
\* maxPositionSize / bestAsk units.  When the BUY succeeds the ledger grows by
\* one entry: OPEN, side BUY, that outcome, entryPrice = bestAsk, size = the
\* units, the modelProb the tick started with; and the time of the last trade
\* is set.
C25_EntryExecution ==
  [][\A old \in BagToSet(ticks) :
       /\ (Leaves(old) /\ old.pc \in {"fetch", "sell"}
             /\ Emits("INFO", "alpha")) =>
            LET yesAsk == IF old.pc = "fetch"
                            THEN BestAsk(fetched'.yes) ELSE old.bestYesAsk
                noAsk == IF old.pc = "fetch"
                           THEN BestAsk(fetched'.no) ELSE old.bestNoAsk
                yes == /\ old.risk.directionBias \in {"BOTH", "YES_ONLY"}
                       /\ old.modelProb >= old.risk.minProbThreshold
                       /\ old.modelProb - yesAsk >= old.risk.edgeThreshold
                no == /\ old.risk.directionBias \in {"BOTH", "NO_ONLY"}
                      /\ 100 - old.modelProb >= old.risk.minProbThreshold
                      /\ (100 - old.modelProb) - noAsk
                            >= old.risk.edgeThreshold
                ask == IF yes THEN yesAsk ELSE noAsk
            IN ((yes \/ no)
                  /\ Cardinality(BuysOf(view.logs, old.market))
                        < old.risk.maxBuyCountPerMarket) =>
                 /\ Cardinality(SubmittedBuys) = 1
                 /\ SubmittedSells = {}
                 /\ \A new \in SubmittedBuys :
                      /\ new.order.side = "BUY"
                      /\ new.order.marketId = old.market
                      /\ new.order.outcome = (IF yes THEN "YES" ELSE "NO")
                      /\ new.order.price = ask + 1
                      /\ new.order.size.n * ask
                           = old.risk.maxPositionSize * 100 * new.order.size.d
                      /\ new.modelProb = old.modelProb
       /\ (Leaves(old) /\ old.pc = "buy"
             /\ Emits("SUCCESS", "order-confirmed")) =>
            /\ Len(logs') = Len(logs) + 1
            /\ SubSeq(logs', 1, Len(logs)) = logs
            /\ LET e == logs'[Len(logs')] IN
               /\ e.status = "OPEN"
               /\ e.side = "BUY"
               /\ e.marketId = old.order.marketId
               /\ e.outcome = old.order.outcome
               /\ e.entryPrice = old.order.price - 1
               /\ e.size.n * old.order.size.d = old.order.size.n * e.size.d
               /\ e.modelProb = old.modelProb
            /\ sinceLastTrade' = 0]_vars

\* at model probability 15 and bias BOTH the NO side triggered on an ask of
\* 0.10: the BUY of 100 NO units at 0.11 succeeded and is the only entry
C25_Witness ==
  /\ Emitted("SUCCESS", "order-confirmed")
  /\ Len(logs) = 1
  /\ logs[1].outcome = "NO"
  /\ logs[1].entryPrice = 10
  /\ logs[1].size.n = 100 * logs[1].size.d
  /\ logs[1].modelProb = 15
  /\ logs[1].status = "OPEN"
  /\ sinceLastTrade = 0

\* runEngine has been entered by its timer in the step just taken, with the
\* engine active and a market selected
TickEntered ==
  \/ Emitted("INFO", "tick")
  \/ Emitted("WARN", "skip-tick")
  \/ Emitted("ERROR", "halted")

\* C26: from every state in which the engine is active with a market
\* selected, a tick is eventually executed unless the engine is stopped or
\* the market deselected first, however often the model probability and the
\* displayed market probabilities change.
C26_TickEventuallyRuns ==
  (view.isActive /\ view.selectedMarket # "none")
    ~> (TickEntered \/ ~(view.isActive /\ view.selectedMarket # "none"))

\* C27: a tick whose entry analysis finds a side triggered while the market
\* has maxBuyCountPerMarket BUY entries or more logs a WARN and ends: it
\* submits no order, holds no lock and appends nothing to the ledger, also
\* when the conditions of the other side hold.
C27_BuyLimitEndsTick ==
  [][\A old \in BagToSet(ticks) :
       (Leaves(old) /\ old.pc \in {"fetch", "sell"}
          /\ Emits("INFO", "alpha")) =>
         LET yesAsk == IF old.pc = "fetch"
                         THEN BestAsk(fetched'.yes) ELSE old.bestYesAsk
             noAsk == IF old.pc = "fetch"
                        THEN BestAsk(fetched'.no) ELSE old.bestNoAsk
             yes == /\ old.risk.directionBias \in {"BOTH", "YES_ONLY"}
                    /\ old.modelProb >= old.risk.minProbThreshold
                    /\ old.modelProb - yesAsk >= old.risk.edgeThreshold
             no == /\ old.risk.directionBias \in {"BOTH", "NO_ONLY"}
                   /\ 100 - old.modelProb >= old.risk.minProbThreshold
                   /\ (100 - old.modelProb) - noAsk >= old.risk.edgeThreshold
         IN ((yes \/ no)
               /\ Cardinality(BuysOf(view.logs, old.market))
                     >= old.risk.maxBuyCountPerMarket) =>
              /\ Emits("WARN", "buy-limit")
              /\ SubmittedBuys = {}
              /\ SubmittedSells = {}
              /\ BagCardinality(ticks') = BagCardinality(ticks) - 1
              /\ processingTrade' = FALSE
              /\ Len(logs') = Len(logs)
              /\ UNCHANGED <<tradesCount, sinceLastTrade>>]_vars

\* with minProbThreshold 10 and a buy limit of 1, a tick at model
\* probability 85 got asks of 0.10 on both sides, so that YES and NO both
\* meet their conditions: the market has its one BUY, the tick logged the
\* WARN and ended
C27_Witness ==
  /\ Emitted("WARN", "buy-limit")
  /\ view.risk.minProbThreshold = 10
  /\ view.risk.maxBuyCountPerMarket = 1
  /\ view.risk.directionBias = "BOTH"
  /\ view.modelProb = 85
  /\ fetched = [yes |-> LowBook, no |-> LowBook]
  /\ Len(logs) = 1
  /\ BagToSet(ticks) = {}
  /\ ~processingTrade

\* C28: at most one WebSocket of the price stream is connecting or connected
\* at any time, and it is the one the module variable ws refers to, whatever
\* the order of subscriptions, failures, closes and reconnect timers; hence a
\* ticker message arrives on one socket, and is recorded and delivered once.
C28_AtMostOneLiveSocket ==
  /\ Cardinality({s \in Sockets : sockets[s] = "open"}) <= 1
  /\ \A s \in Sockets : sockets[s] = "open" => ws = s
  /\ ws # 0 => sockets[ws] = "open"

\* two sockets have gone, the third is live and is the one ws refers to,
\* and a reconnect timer of an earlier socket is still pending
C28_Witness ==
  /\ sockets[1] = "closed"
  /\ sockets[2] = "closed"
  /\ sockets[3] = "open"
  /\ ws = 3
  /\ reconnects >= 1
  /\ priceHistory # <<>>

\* C29: successful entries are spaced by the cooldown also when ticks
\* overlap: of any two successful BUYs, the later one is submitted at least
\* 15 s after the earlier one has completed. A BUY completes no earlier than
\* it is submitted, so every BUY that succeeds does so at least 15 s after
\* the last successful BUY before it.
C29_SuccessfulBuysSpaced ==
  [][\A old \in BagToSet(ticks) :
       (/\ old.pc = "buy"
        /\ Leaves(old)
        /\ Emits("SUCCESS", "order-confirmed"))
       => sinceLastTrade >= COOLDOWN_MS]_vars


\* C30: a tick acts only on the market that was selected when it started:
\* its market is selectedMarketRef at its start and stays the same to its
\* end; every order it submits is for the YES or the NO token of that market,
\* every SELL for a position of that market; the entry it appends and every
\* entry whose status it changes have that market as marketId, so the
\* entries of any other market, OPEN ones included, are left as they are.
C30_TickActsOnItsMarket ==
  [][/\ \A new \in BagToSet(ticks') :
          Reaches(new) =>
            IF \E old \in BagToSet(ticks) : Leaves(old)
              THEN \E old \in BagToSet(ticks) :
                     Leaves(old) /\ new.market = old.market
              ELSE new.market = view.selectedMarket
     /\ \A new \in SubmittedSells \cup SubmittedBuys :
          /\ new.order.marketId = new.market
          /\ new.order.outcome \in Outcomes
     /\ \A new \in SubmittedSells :
          /\ new.openTrades[new.idx].marketId = new.market
          /\ new.openTrades[new.idx].outcome = new.order.outcome
     /\ \A i \in DOMAIN logs' :
          (i \notin DOMAIN logs \/ logs'[i] # logs[i]) =>
            \E old \in BagToSet(ticks) :
              Leaves(old) /\ old.market = logs'[i].marketId]_vars

\* the first market holds an OPEN position, the second market is selected,
\* and a tick of the second market has sold and closed the position of the
\* second market at a bid that is a take profit for both positions
C30_Witness ==
  /\ view.selectedMarket = "m2"
  /\ Len(logs) = 2
  /\ logs[1].marketId = "m1" /\ logs[1].status = "OPEN"
  /\ logs[2].marketId = "m2" /\ logs[2].status = "CLOSED"
  /\ logs[1].outcome = logs[2].outcome
  /\ logs[1].entryPrice = logs[2].entryPrice
  /\ Emitted("SUCCESS", "tp-executed")

====
